---- MODULE Spec2Model ----
(***************************************************************************)
(* Model of the Ekubo pool registry / discovery / quoting engine and its   *)
(* refresh scheduler (class Ekubo) as a state machine.  One action is one  *)
(* run-to-completion step of the JavaScript event loop: the code between   *)
(* two suspension points (await) of a handler.                             *)
(***************************************************************************)
EXTENDS Integers, Sequences, FiniteSets, TLC

VARIABLES
    pools,      \* Ekubo.pools: insertion-ordered Map<string, BasePool>
    interval,   \* Ekubo.interval: handle of the repeating timer, or NoTimer
    armed,      \* timer handles the runtime still fires (setInterval, not cleared)
    nextTimer,  \* next handle setInterval hands out
    passes,     \* the discovery passes (async calls) in flight, one per slot
    released,   \* releaseResources has returned (teardown: no call is made after it)
    exited,     \* the runtime ended the process on an unhandled rejection
    priceCall,  \* the getPricesVolume call that returned last, until the next discovery call
    dexParam,   \* the getDexParam call that returned last, until the next quote
    idleState,  \* IdleDaoEventPool: the snapshot the subscriber holds (<<>> is null)
    idleCall,   \* IdleDaoEventPool: the processLog / generateState call in flight
    idleLog     \* IdleDaoEventPool: the calls that have settled, in order

idleVars == <<idleState, idleCall, idleLog>>

vars == <<pools, interval, armed, nextTimer, passes, released, exited, priceCall,
          dexParam, idleState, idleCall, idleLog>>

(***************************************************************************)
(* Bounds of the model.                                                    *)
(***************************************************************************)
MaxTimers == 2          \* setInterval calls (initializePricing calls) per run
MaxBlock == 1           \* block numbers are 1..MaxBlock

\* The async calls that may be in flight at once: one on-demand discovery
\* (getPoolIdentifiers) and one pass of the scheduler (initializePricing or a
\* timer callback).
DemandSlots == {"demand"}
RefreshSlots == {"refresh"}
Slots == DemandSlots \cup RefreshSlots

(***************************************************************************)
(* Program constants.                                                      *)
(***************************************************************************)
MAX_POOL_BATCH_COUNT == 5
FULL_RANGE_TICK_SPACING == 0
NATIVE_TOKEN_ADDRESS == 0
ETHER_ADDRESS == 14     \* ParaSwap's placeholder address of the native asset
configOracle == 7       \* this.config.oracle, the oracle extension's address
configCore == 9         \* this.config.core, the core contract's address

FALLBACK_POOL_PARAMETERS ==
    << [fee |-> "1844674407370955", tickSpacing |-> 200],
       [fee |-> "9223372036854775", tickSpacing |-> 1000],
       [fee |-> "55340232221128654", tickSpacing |-> 5982],
       [fee |-> "184467440737095516", tickSpacing |-> 19802],
       [fee |-> "922337203685477580", tickSpacing |-> 95310] >>

supportedExtensions == {0, configOracle}

NoTimer == 0

(***************************************************************************)
(* Sequence helpers.                                                       *)
(***************************************************************************)
Range(s) == {s[i] : i \in DOMAIN s}

Min(a, b) == IF a < b THEN a ELSE b

Abs(a) == IF a < 0 THEN -a ELSE a

RECURSIVE getBigIntPow(_)
getBigIntPow(decimals) == IF decimals = 0 THEN 1 ELSE 10 * getBigIntPow(decimals - 1)

\* Decimal strings (NumberAsString, the strings web3 returns for a uint256)
\* are sequences of character codes: 48..57 are the digits, 45 is "-".
RECURSIVE NumberAsString(_)
NumberAsString(n) ==
    IF n < 10 THEN <<48 + n>> ELSE NumberAsString(n \div 10) \o <<48 + (n % 10)>>

RECURSIVE ParseDigits(_, _)
ParseDigits(s, acc) ==
    IF s = <<>> THEN acc ELSE ParseDigits(Tail(s), 10 * acc + (Head(s) - 48))

\* BigInt(string): the integer a decimal string denotes, with an optional sign
BigInt(s) ==
    IF s # <<>> /\ Head(s) = 45 THEN 0 - ParseDigits(Tail(s), 0) ELSE ParseDigits(s, 0)


(***************************************************************************)
(* Tokens, pool keys and identifiers.                                      *)
(***************************************************************************)
Token(address, decimals) == [address |-> address, decimals |-> decimals]

ETH == Token(ETHER_ADDRESS, 1)
TKA == Token(3, 0)
TKB == Token(5, 1)

convertParaSwapToEkubo(address) ==
    IF address = ETHER_ADDRESS THEN NATIVE_TOKEN_ADDRESS ELSE address

\* <<token0, token1>>: both converted, the numerically lower first
sortAndConvertTokens(tokenA, tokenB) ==
    LET a == convertParaSwapToEkubo(tokenA.address)
        b == convertParaSwapToEkubo(tokenB.address)
    IN  IF a <= b THEN <<a, b>> ELSE <<b, a>>

PoolConfig(tickSpacing, fee, extension) ==
    [tickSpacing |-> tickSpacing, fee |-> fee, extension |-> extension]

\* string_id is derived deterministically from the whole configuration
PoolKey(token0, token1, config) ==
    [token0 |-> token0, token1 |-> token1, config |-> config,
     string_id |-> <<token0, token1, config.fee, config.tickSpacing, config.extension>>]

(***************************************************************************)
(* The registry: an insertion-ordered Map<string, BasePool>, kept as the   *)
(* sequence of its entries (key poolId, value pool) with distinct keys.    *)
(***************************************************************************)
PoolIds(map) == {map[i].poolId : i \in DOMAIN map}

MapHas(map, poolId) == poolId \in PoolIds(map)

MapGet(map, poolId) ==
    map[CHOOSE i \in DOMAIN map : map[i].poolId = poolId].pool

\* Map.values(): the values in insertion order
MapValues(map) == [i \in DOMAIN map |-> map[i].pool]

\* Map.set: replaces the value of an existing key in place, appends a new key
MapSet(map, poolId, pool) ==
    IF MapHas(map, poolId)
    THEN [i \in DOMAIN map |->
            IF map[i].poolId = poolId THEN [poolId |-> poolId, pool |-> pool] ELSE map[i]]
    ELSE Append(map, [poolId |-> poolId, pool |-> pool])

(***************************************************************************)
(* External collaborators: the index API and the chain.                    *)
(***************************************************************************)
IndexEntry(core, token0, token1, fee, spacing, extension) ==
    [core_address |-> core, token0 |-> token0, token1 |-> token1, fee |-> fee,
     tick_spacing |-> spacing, extension |-> extension]

\* A well-formed "all pools" response: one pool on the pair (3, 5), two on
\* the native pair (0, 3), one pool of an unsupported extension and one of a
\* foreign core contract.
IndexPools ==
    << IndexEntry(configCore, 3, 5, "1844674407370955", 200, 0),
       IndexEntry(configCore, 0, 3, "1844674407370955", 200, 8),
       IndexEntry(configCore, 0, 3, "0", FULL_RANGE_TICK_SPACING, configOracle),
       IndexEntry(4, 3, 5, "9223372036854775", 1000, 0),
       IndexEntry(configCore, 0, 3, "1844674407370955", 200, 0) >>

\* What GET /pools may answer: a well-formed list, a transport error, or a
\* body that fails the schema validation.
IndexResponses == {"ok", "error", "malformed"}

\* Pool state on chain at a block, as getQuoteData reads it.
ChainState(poolKey, blockNumber) ==
    LET ts == poolKey.config.tickSpacing
        depth == CASE ts = 200 -> 3
                   [] ts = 1000 -> 50
                   [] ts = 5982 -> 0
                   [] ts = 19802 -> 12
                   [] ts = 95310 -> 100
                   [] OTHER -> 25
    IN  [liquidity |-> depth * blockNumber,
         overflowAt |-> IF ts = 95310 THEN 15 ELSE 1000]

Blocks == 1..MaxBlock

(***************************************************************************)
(* Pool objects.                                                           *)
(***************************************************************************)
\* The snapshot of a pool that has none yet (StatefulEventSubscriber.state is
\* null until setState): it holds no liquidity.
NullState == [liquidity |-> 0, overflowAt |-> 0]

\* new poolConstructor(..., poolKey, ...): the object is not initialized; ref
\* is the identity of the object (the pass that built it).
NewPool(variant, poolKey, ref) ==
    [key |-> poolKey, variant |-> variant, ref |-> ref,
     isInitialized |-> FALSE, state |-> NullState]

\* pool.initialize(blockNumber, {state}): with a state given, the snapshot is
\* set before the first await of initialize, in the caller's own step
initialize(pool, blockNumber, state) ==
    [pool EXCEPT !.isInitialized = TRUE, !.state = state]

\* pool.quote throws on an arithmetic overflow of the swap computation
QuoteThrows(pool, inputAmount, token, blockNumber) ==
    Abs(inputAmount) > pool.state.overflowAt

\* pool.quote(inputAmount, token, blockNumber): the part of the amount the
\* pool's liquidity fills, the amount computed for it, the ticks skipped
\* (continuation cursor) and the gas; computed on the snapshot the pool holds.
Quote(pool, inputAmount, token, blockNumber) ==
    LET filled == Min(Abs(inputAmount), pool.state.liquidity)
        isToken1 == token = pool.key.token1
        skipped == filled \div 4
    IN  [consumedAmount |-> IF inputAmount < 0 THEN -filled ELSE filled,
         calculatedAmount |-> IF isToken1 THEN 2 * filled ELSE 3 * filled + 1,
         gasConsumed |-> 10 + 2 * skipped + (IF pool.variant = "OraclePool" THEN 5 ELSE 0),
         skipAhead |-> skipped]

(***************************************************************************)
(* Discovery: the index query, the fallback list, batching.                *)
(***************************************************************************)
\* mutant: the index entries are not filtered by extension
IsSupportedEntryAnyExtension(res) == res.core_address = configCore

IsSupportedEntry(res) ==
    res.extension \in supportedExtensions /\ res.core_address = configCore

EntryToPoolKey(info) ==
    PoolKey(info.token0, info.token1,
            PoolConfig(info.tick_spacing, info.fee, info.extension))

\* fetchAllPoolKeys on a validated response: filter, then map to PoolKey
fetchAllPoolKeys(value) ==
    LET kept == SelectSeq(value, IsSupportedEntry)
    IN  [i \in DOMAIN kept |-> EntryToPoolKey(kept[i])]

\* mutant: the oracle configuration is added whatever the pair
FallbackPoolKeysAlwaysOracle(token0, token1) ==
    [i \in 1..(Len(FALLBACK_POOL_PARAMETERS) + 1) |->
        IF i <= Len(FALLBACK_POOL_PARAMETERS)
        THEN PoolKey(token0, token1,
                     PoolConfig(FALLBACK_POOL_PARAMETERS[i].tickSpacing,
                                FALLBACK_POOL_PARAMETERS[i].fee, 0))
        ELSE PoolKey(token0, token1,
                     PoolConfig(FULL_RANGE_TICK_SPACING, "0", configOracle))]

\* the catch branch of fetchPoolsByPair
FallbackPoolKeys(token0, token1) ==
    LET generic == [i \in DOMAIN FALLBACK_POOL_PARAMETERS |->
                      PoolKey(token0, token1,
                              PoolConfig(FALLBACK_POOL_PARAMETERS[i].tickSpacing,
                                         FALLBACK_POOL_PARAMETERS[i].fee, 0))]
    IN  IF NATIVE_TOKEN_ADDRESS \in {token0, token1}
        THEN Append(generic,
                    PoolKey(token0, token1,
                            PoolConfig(FULL_RANGE_TICK_SPACING, "0", configOracle)))
        ELSE generic

\* the candidate configurations of fetchPoolsByPair for an index response
PairPoolKeys(response, token0, token1) ==
    IF response = "ok"
    THEN LET all == fetchAllPoolKeys(IndexPools)
             OnPair(poolKey) == poolKey.token0 = token0 /\ poolKey.token1 = token1
         IN  SelectSeq(all, OnPair)
    ELSE FallbackPoolKeys(token0, token1)

UninitializedPoolKeys(map, poolKeys) ==
    LET Untracked(poolKey) == ~MapHas(map, poolKey.string_id)
    IN  SelectSeq(poolKeys, Untracked)

InitializedPoolKeys(map, poolKeys) ==
    LET Tracked(poolKey) == MapHas(map, poolKey.string_id)
    IN  SelectSeq(poolKeys, Tracked)

PoolIdsOf(poolKeys) == [i \in DOMAIN poolKeys |-> poolKeys[i].string_id]

\* the time getPoolIdentifiers gives fetchPoolsByPair, in milliseconds
FETCH_POOL_IDENTIFIER_TIMEOUT == 1000

\* mutant: the deadline is computed in whole seconds
BatchMaxTimeInSeconds(maxTime) == ((maxTime - 50) \div 1000) \div 2

\* fetchPoolsByPair: maxTime -= 50, and maxTime / 2 is the deadline it gives
\* initializePools, which arms one only if the value is truthy (not 0)
BatchMaxTime(maxTime) == (maxTime - 50) \div 2

\* mutant: the end of the slice is taken as inclusive
BatchSliceInclusiveEnd(poolKeys, batchStart) ==
    SubSeq(poolKeys, batchStart + 1,
           Min(batchStart + MAX_POOL_BATCH_COUNT + 1, Len(poolKeys)))

\* poolKeys.slice(batchStart, batchStart + MAX_POOL_BATCH_COUNT), batchStart 0-based
BatchSlice(poolKeys, batchStart) ==
    SubSeq(poolKeys, batchStart + 1, Min(batchStart + MAX_POOL_BATCH_COUNT, Len(poolKeys)))

\* One promise of initializePools: the batch, the state of its on-chain read
\* and of the race against its deadline.
NewBatch(poolKeys, batchStart, maxTime) ==
    [keys |-> BatchSlice(poolKeys, batchStart),
     hasDeadline |-> maxTime,
     read |-> "inflight",
     promise |-> "pending",
     err |-> "none",
     value |-> <<>>,
     inserted |-> <<>>]

\* initializePools: one batch per MAX_POOL_BATCH_COUNT keys, in order
initializePools(poolKeys, maxTime) ==
    LET count == (Len(poolKeys) + MAX_POOL_BATCH_COUNT - 1) \div MAX_POOL_BATCH_COUNT
    IN  [b \in 1..count |-> NewBatch(poolKeys, (b - 1) * MAX_POOL_BATCH_COUNT, maxTime)]

PoolVariant(extension) ==
    IF extension = 0 THEN "BasePool"
    ELSE IF extension = configOracle THEN "OraclePool"
    ELSE "unknown"

\* mutant: a batch whose race is lost is cancelled and builds no pool
ConstructedKeysUnlessSettled(batch) ==
    IF batch.promise # "pending" THEN <<>> ELSE batch.keys

\* The pool keys of a batch whose construction reaches this.pools.set: every
\* element of fetchedData.map runs to its first await, a throw in one element
\* does not stop the others.
ConstructedKeys(batch) ==
    LET Known(poolKey) == PoolVariant(poolKey.config.extension) # "unknown"
    IN  SelectSeq(batch.keys, Known)

\* mutant: the snapshot is set in a later step than this.pools.set
RECURSIVE InsertPoolsUninitialized(_, _, _, _)
InsertPoolsUninitialized(map, poolKeys, ref, blockNumber) ==
    IF poolKeys = <<>> THEN map
    ELSE InsertPoolsUninitialized(
            MapSet(map, Head(poolKeys).string_id,
                   NewPool(PoolVariant(Head(poolKeys).config.extension),
                           Head(poolKeys), ref)),
            Tail(poolKeys), ref, blockNumber)

\* mutant: the identifier is taken from the key without its extension
RECURSIVE InsertPoolsKeyedWithoutExtension(_, _, _, _)
InsertPoolsKeyedWithoutExtension(map, poolKeys, ref, blockNumber) ==
    IF poolKeys = <<>> THEN map
    ELSE LET poolKey == Head(poolKeys)
             poolId == PoolKey(poolKey.token0, poolKey.token1,
                               PoolConfig(poolKey.config.tickSpacing,
                                          poolKey.config.fee, 0)).string_id
             pool == NewPool(PoolVariant(poolKey.config.extension), poolKey, ref)
         IN  InsertPoolsKeyedWithoutExtension(
                MapSet(map, poolId,
                       initialize(pool, blockNumber, ChainState(poolKey, blockNumber))),
                Tail(poolKeys), ref, blockNumber)

\* fetchedData.map(async ...): for each pool of the batch in order, the object
\* is constructed on poolKey, stored under poolKey.string_id and initialized
\* with the state read; the stored object is the one initialize updates
RECURSIVE InsertPools(_, _, _, _)
InsertPools(map, poolKeys, ref, blockNumber) ==
    IF poolKeys = <<>> THEN map
    ELSE LET poolKey == Head(poolKeys)
             poolId == poolKey.string_id
             initialState == ChainState(poolKey, blockNumber)
             pool == NewPool(PoolVariant(poolKey.config.extension), poolKey, ref)
             stored == MapSet(map, poolId, pool)
         IN  InsertPools(MapSet(stored, poolId, initialize(pool, blockNumber, initialState)),
                         Tail(poolKeys), ref, blockNumber)

\* The batch once getQuoteData has returned: the inner async function runs
\* whether or not the race is already lost.
BatchAfterRead(batch) ==
    LET built == ConstructedKeys(batch)
        threw == Len(built) < Len(batch.keys)
    IN  [batch EXCEPT
            !.read = "returned",
            !.inserted = PoolIdsOf(built),
            !.promise = IF batch.promise # "pending" THEN batch.promise
                        ELSE IF threw THEN "rejected" ELSE "fulfilled",
            !.err = IF batch.promise # "pending" THEN batch.err
                    ELSE IF threw THEN "UnknownExtension" ELSE "none",
            !.value = IF batch.promise = "pending" /\ ~threw
                      THEN PoolIdsOf(batch.keys) ELSE batch.value]

BatchAfterReadError(batch) ==
    [batch EXCEPT
        !.read = "failed",
        !.promise = IF batch.promise = "pending" THEN "rejected" ELSE batch.promise,
        !.err = IF batch.promise = "pending" THEN "ReadError" ELSE batch.err]

BatchAfterTimeout(batch) ==
    [batch EXCEPT !.promise = "rejected", !.err = "Timeout"]

AllSettled(batches) == \A b \in DOMAIN batches : batches[b].promise # "pending"

\* mutant: Promise.all instead of Promise.allSettled, one rejection loses all
RECURSIVE NewPoolIdsAllOrNothing(_)
NewPoolIdsAllOrNothing(batches) ==
    IF \E b \in DOMAIN batches : batches[b].promise = "rejected" THEN <<>>
    ELSE IF batches = <<>> THEN <<>>
    ELSE Head(batches).value \o NewPoolIdsAllOrNothing(Tail(batches))

\* mutant: the keys of a rejected batch are returned as well
RECURSIVE NewPoolIdsOfEveryBatch(_)
NewPoolIdsOfEveryBatch(batches) ==
    IF batches = <<>> THEN <<>>
    ELSE PoolIdsOf(Head(batches).keys) \o NewPoolIdsOfEveryBatch(Tail(batches))

\* (await Promise.allSettled(promises)).flatMap(...): the values of the
\* fulfilled batches, in batch order
RECURSIVE NewPoolIds(_)
NewPoolIds(batches) ==
    IF batches = <<>> THEN <<>>
    ELSE (IF Head(batches).promise = "rejected" THEN <<>> ELSE Head(batches).value)
         \o NewPoolIds(Tail(batches))

(***************************************************************************)
(* Discovery passes.                                                       *)
(***************************************************************************)
NoToken == Token(0, 0)

IdlePass ==
    [pc |-> "idle", kind |-> "none", tokenA |-> NoToken, tokenB |-> NoToken,
     blockNumber |-> 0, indexFailed |-> FALSE, poolKeys |-> <<>>,
     oldPoolIds |-> <<>>, batches |-> <<>>, result |-> <<>>]

(***************************************************************************)
(* Quoting.                                                                *)
(***************************************************************************)
\* mutant: an identifier that is not tracked ends the list
RECURSIVE LimitedPoolsStopAtMissing(_, _)
LimitedPoolsStopAtMissing(map, limitPools) ==
    IF limitPools = <<>> THEN <<>>
    ELSE IF MapHas(map, Head(limitPools))
    THEN <<MapGet(map, Head(limitPools))>> \o LimitedPoolsStopAtMissing(map, Tail(limitPools))
    ELSE <<>>

\* getInitializedPools: limitPools is "undefined" or a sequence of identifiers
RECURSIVE LimitedPools(_, _)
LimitedPools(map, limitPools) ==
    IF limitPools = <<>> THEN <<>>
    ELSE (IF MapHas(map, Head(limitPools))
          THEN <<MapGet(map, Head(limitPools))>>
          ELSE <<>>)
         \o LimitedPools(map, Tail(limitPools))

\* mutant: the registry is not filtered by pair
getInitializedPoolsUnfiltered(map, tokenA, tokenB, limitPools) ==
    IF limitPools = "undefined" THEN MapValues(map) ELSE LimitedPools(map, limitPools)

getInitializedPools(map, tokenA, tokenB, limitPools) ==
    IF limitPools = "undefined"
    THEN LET pair == sortAndConvertTokens(tokenA, tokenB)
             OnPair(pool) == pool.key.token0 = pair[1] /\ pool.key.token1 = pair[2]
         IN  SelectSeq(MapValues(map), OnPair)
    ELSE LimitedPools(map, limitPools)

\* mutant: the inner loop without the exact-output starvation check
RECURSIVE QuoteAmountsNoStarvationCheck(_, _, _, _, _, _)
QuoteAmountsNoStarvationCheck(pool, amountList, isExactOut, amountTokenAddress, blockNumber, acc) ==
    IF amountList = <<>> THEN acc
    ELSE LET amount == Head(amountList)
             inputAmount == IF isExactOut THEN -amount ELSE amount
             quote == Quote(pool, inputAmount, amountTokenAddress, blockNumber)
         IN  IF QuoteThrows(pool, inputAmount, amountTokenAddress, blockNumber)
             THEN [acc EXCEPT !.status = "threw"]
             ELSE QuoteAmountsNoStarvationCheck(
                     pool, Tail(amountList), isExactOut, amountTokenAddress, blockNumber,
                     [acc EXCEPT
                        !.quotes = Append(acc.quotes, quote),
                        !.skipAhead = (amount :> quote.skipAhead) @@ acc.skipAhead])

\* mutant: the starvation check is not applied to the unit amount
RECURSIVE QuoteAmountsUnitExempt(_, _, _, _, _, _)
QuoteAmountsUnitExempt(pool, amountList, isExactOut, amountTokenAddress, blockNumber, acc) ==
    IF amountList = <<>> THEN acc
    ELSE LET amount == Head(amountList)
             inputAmount == IF isExactOut THEN -amount ELSE amount
             quote == Quote(pool, inputAmount, amountTokenAddress, blockNumber)
         IN  IF QuoteThrows(pool, inputAmount, amountTokenAddress, blockNumber)
             THEN [acc EXCEPT !.status = "threw"]
             ELSE IF isExactOut /\ acc.quotes # <<>> /\ quote.consumedAmount # inputAmount
             THEN [acc EXCEPT !.status = "starved"]
             ELSE QuoteAmountsUnitExempt(
                     pool, Tail(amountList), isExactOut, amountTokenAddress, blockNumber,
                     [acc EXCEPT
                        !.quotes = Append(acc.quotes, quote),
                        !.skipAhead = (amount :> quote.skipAhead) @@ acc.skipAhead])

\* The inner loop of getPricesVolume over [unitAmount, ...amounts] for one
\* pool: acc holds the quotes pushed and the skipAhead map so far; status
\* "threw" is the catch branch, "starved" the continue poolLoop.
RECURSIVE QuoteAmounts(_, _, _, _, _, _)
QuoteAmounts(pool, amountList, isExactOut, amountTokenAddress, blockNumber, acc) ==
    IF amountList = <<>> THEN acc
    ELSE LET amount == Head(amountList)
             inputAmount == IF isExactOut THEN -amount ELSE amount
             quote == Quote(pool, inputAmount, amountTokenAddress, blockNumber)
         IN  IF QuoteThrows(pool, inputAmount, amountTokenAddress, blockNumber)
             THEN [acc EXCEPT !.status = "threw"]
             ELSE IF isExactOut /\ quote.consumedAmount # inputAmount
             THEN [acc EXCEPT !.status = "starved"]
             ELSE QuoteAmounts(pool, Tail(amountList), isExactOut,
                               amountTokenAddress, blockNumber,
                               [acc EXCEPT
                                  !.quotes = Append(acc.quotes, quote),
                                  !.skipAhead = (amount :> quote.skipAhead) @@ acc.skipAhead])

\* mutant: the unit quote is not split off the quotes
PricePointWithUnit(pool, quoted, amountTokenAddress, token1) ==
    [prices |-> [i \in DOMAIN quoted.quotes |-> quoted.quotes[i].calculatedAmount],
     unit |-> Head(quoted.quotes).calculatedAmount,
     data |-> [poolKey |-> pool.key,
               isToken1 |-> amountTokenAddress = token1,
               skipAhead |-> quoted.skipAhead],
     poolIdentifier |-> pool.key.string_id,
     gasCost |-> [i \in DOMAIN quoted.quotes |-> quoted.quotes[i].gasConsumed]]

PricePoint(pool, quoted, amountTokenAddress, token1) ==
    LET otherQuotes == Tail(quoted.quotes)
    IN  [prices |-> [i \in DOMAIN otherQuotes |-> otherQuotes[i].calculatedAmount],
         unit |-> Head(quoted.quotes).calculatedAmount,
         data |-> [poolKey |-> pool.key,
                   isToken1 |-> amountTokenAddress = token1,
                   skipAhead |-> quoted.skipAhead],
         poolIdentifier |-> pool.key.string_id,
         gasCost |-> [i \in DOMAIN otherQuotes |-> otherQuotes[i].gasConsumed]]

\* one iteration of poolLoop: the price points the pool adds (one or none)
PoolPrices(pool, srcToken, destToken, amounts, side, blockNumber) ==
    LET isExactOut == side = "BUY"
        amountToken == IF isExactOut THEN destToken ELSE srcToken
        amountTokenAddress == convertParaSwapToEkubo(amountToken.address)
        unitAmount == getBigIntPow(amountToken.decimals)
        pair == sortAndConvertTokens(srcToken, destToken)
        quoted == QuoteAmounts(pool, <<unitAmount>> \o amounts, isExactOut,
                               amountTokenAddress, blockNumber,
                               [status |-> "ok", quotes |-> <<>>, skipAhead |-> <<>>])
    IN  IF pool.key.token0 # pair[1] \/ pool.key.token1 # pair[2] THEN <<>>
        ELSE IF quoted.status # "ok" THEN <<>>
        ELSE << PricePoint(pool, quoted, amountTokenAddress, pair[2]) >>

\* mutant: a skipped pool ends the loop
RECURSIVE PoolLoopAbortOnSkip(_, _, _, _, _, _)
PoolLoopAbortOnSkip(candidates, srcToken, destToken, amounts, side, blockNumber) ==
    IF candidates = <<>> THEN <<>>
    ELSE LET first == PoolPrices(Head(candidates), srcToken, destToken, amounts,
                                 side, blockNumber)
         IN  IF first = <<>> THEN <<>>
             ELSE first \o PoolLoopAbortOnSkip(Tail(candidates), srcToken, destToken,
                                               amounts, side, blockNumber)

RECURSIVE PoolLoop(_, _, _, _, _, _)
PoolLoop(candidates, srcToken, destToken, amounts, side, blockNumber) ==
    IF candidates = <<>> THEN <<>>
    ELSE PoolPrices(Head(candidates), srcToken, destToken, amounts, side, blockNumber)
         \o PoolLoop(Tail(candidates), srcToken, destToken, amounts, side, blockNumber)

\* mutant: the continuation map is looked up under the other amount
SwapArgumentsKeyedByOther(srcAmount, destAmount, data, side) ==
    LET amount == BigInt(IF side = "BUY" THEN <<45>> \o destAmount ELSE srcAmount)
        key == BigInt(IF side = "SELL" THEN destAmount ELSE srcAmount)
    IN  [poolKey |-> data.poolKey,
         isToken1 |-> data.isToken1,
         amount |-> amount,
         skipAhead |-> IF key \in DOMAIN data.skipAhead THEN data.skipAhead[key] ELSE 0]

\* getDexParam: the arguments of the router's swap call that depend on the
\* price point: the pool key, the direction flag, the signed amount and the
\* cursor data.skipAhead.get(amount) ?? 0
SwapArguments(srcAmount, destAmount, data, side) ==
    LET amount == BigInt(IF side = "BUY" THEN <<45>> \o destAmount ELSE srcAmount)
        key == BigInt(IF side = "SELL" THEN srcAmount ELSE destAmount)
    IN  [poolKey |-> data.poolKey,
         isToken1 |-> data.isToken1,
         amount |-> amount,
         skipAhead |-> IF key \in DOMAIN data.skipAhead THEN data.skipAhead[key] ELSE 0]

(***************************************************************************)
(* IdleDaoEventPool: the event-sourced state of one Idle tranche token.    *)
(***************************************************************************)
MaxCalls == 3           \* processLog / generateState calls per run
MaxLogBlock == 2        \* logs and reads are at blocks 1..MaxLogBlock

LogBlocks == 1..MaxLogBlock

\* A log of the subscribed address: the event its first topic names, whether
\* its data has the layout the ABI gives that event, the value it carries
\* (the amount of a Transfer), and its block.
Log(topic, data, value, blockNumber) ==
    [topic |-> topic, data |-> data, value |-> value, blockNumber |-> blockNumber]

Logs ==
    {Log(topic, data, value, blockNumber) :
        topic \in {"Transfer", "Approval", "Swap"},
        data \in {"wellFormed", "truncated"},
        value \in {1, 2},
        blockNumber \in LogBlocks}

\* the events of ERC20_ABI, the interface logDecoder parses with
ERC20Events == {"Transfer", "Approval"}

\* this.logDecoder(log) = poolInterface.parseLog(log): throws when no event of
\* the ABI matches the log or its data cannot be decoded
logDecoder(log) ==
    IF log.topic \in ERC20Events /\ log.data = "wellFormed"
    THEN [threw |-> FALSE, name |-> log.topic, args |-> log.value]
    ELSE [threw |-> TRUE, name |-> "none", args |-> 0]

\* mutant: a handler is registered for every event of the ABI
handlersForEveryEvent == ERC20Events

\* the keys of this.handlers
handlers == {"Transfer"}

\* cdoContract.methods.virtualPrice(idleAddress).call({}, blockNumber): the
\* authoritative value at a block, as the decimal string web3 returns
virtualPrice(blockNumber) == NumberAsString(100 + 7 * blockNumber)

\* the snapshot generateState builds from the value it read
PoolState(tranchePrice) == [tokenPrice |-> BigInt(tranchePrice)]

\* catchParseLogError(e, logger): logs the error (a parse error or any other)
\* and returns; it never throws
catchParseLogError(e) == "returns"

\* StatefulEventSubscriber: a null result of processLog leaves the snapshot
\* as it is, any other result replaces it
setState(state, result) == IF result = <<>> THEN state ELSE result

NoLog == Log("none", "none", 0, 0)

IdleCall ==
    [pc |-> "idle", op |-> "none", log |-> NoLog, blockNumber |-> 0, reads |-> 0]

\* the record of a settled call: what it was, the snapshot it started from,
\* the reads it issued, whether its read failed, and how its promise settled
Settled(call, state, readFailed, status, value) ==
    [op |-> call.op, log |-> call.log, blockNumber |-> call.blockNumber,
     before |-> state, reads |-> call.reads, readFailed |-> readFailed,
     status |-> status, value |-> value]

FreshPass(kind, tokenA, tokenB, blockNumber, pc) ==
    [IdlePass EXCEPT !.pc = pc, !.kind = kind, !.tokenA = tokenA,
                     !.tokenB = tokenB, !.blockNumber = blockNumber]

TokenPairs == {<<ETH, TKA>>, <<TKA, ETH>>, <<TKA, TKB>>, <<TKB, TKA>>}

\* the pairs on-demand discovery is asked for
DiscoveryPairs == {<<ETH, TKA>>}

NoCall == [side |-> "none"]

NoParam == [side |-> "none"]

Init ==
    /\ pools = <<>>
    /\ interval = NoTimer
    /\ armed = {}
    /\ nextTimer = 1
    /\ passes = [s \in Slots |-> IdlePass]
    /\ released = FALSE
    /\ exited = FALSE
    /\ priceCall = NoCall
    /\ dexParam = NoParam
    /\ idleState = <<>>
    /\ idleCall = IdleCall
    /\ idleLog = <<>>

\* getPoolIdentifiers -> fetchPoolsByPair, up to the await of the index query
getPoolIdentifiers(s, srcToken, destToken, blockNumber) ==
    /\ ~exited
    /\ passes[s].pc = "idle"
    /\ ~released
    /\ passes' = [passes EXCEPT ![s] =
                    FreshPass("onDemand", srcToken, destToken, blockNumber, "awaitIndex")]
    /\ priceCall' = NoCall
    /\ dexParam' = NoParam
    /\ UNCHANGED <<pools, interval, armed, nextTimer, released, exited, idleVars>>

\* initializePricing, up to the await of the index query of updatePoolMap
initializePricing(s, blockNumber) ==
    /\ ~exited
    /\ passes[s].pc = "idle"
    /\ ~released
    /\ nextTimer + Cardinality({t \in Slots : passes[t].kind = "initial"}) <= MaxTimers
    /\ passes' = [passes EXCEPT ![s] =
                    FreshPass("initial", NoToken, NoToken, blockNumber, "awaitIndex")]
    /\ UNCHANGED <<pools, interval, armed, nextTimer, released, exited, priceCall, idleVars, dexParam>>

\* a tick of the repeating timer: the callback runs up to the await of getBlockNumber
TimerFires(s, handle) ==
    /\ ~exited
    /\ handle \in armed
    /\ passes[s].pc = "idle"
    /\ passes' = [passes EXCEPT ![s] =
                    FreshPass("scheduled", NoToken, NoToken, 0, "awaitBlock")]
    /\ UNCHANGED <<pools, interval, armed, nextTimer, released, exited, priceCall, idleVars, dexParam>>

\* getBlockNumber resolves: the callback calls updatePoolMap, which awaits the index
getBlockNumberReturns(s, blockNumber) ==
    /\ ~exited
    /\ passes[s].pc = "awaitBlock"
    /\ passes' = [passes EXCEPT ![s].pc = "awaitIndex", ![s].blockNumber = blockNumber]
    /\ UNCHANGED <<pools, interval, armed, nextTimer, released, exited, priceCall, idleVars, dexParam>>

\* getBlockNumber rejects: nothing in the callback catches it, the callback's
\* promise is rejected and unhandled; the runtime either ends the process or
\* only reports it.
getBlockNumberFails(s, fatal) ==
    /\ ~exited
    /\ passes[s].pc = "awaitBlock"
    /\ passes' = [passes EXCEPT ![s].pc = "unhandledRejection"]
    /\ exited' = fatal
    /\ UNCHANGED <<pools, interval, armed, nextTimer, released, priceCall, idleVars, dexParam>>

\* the runtime has reported the unhandled rejection and goes on
RejectionReported(s) ==
    /\ ~exited
    /\ passes[s].pc = "unhandledRejection"
    /\ passes' = [passes EXCEPT ![s] = IdlePass]
    /\ UNCHANGED <<pools, interval, armed, nextTimer, released, exited, priceCall, idleVars, dexParam>>

\* the rest of initializePricing once updatePoolMap has returned: setInterval
AfterUpdatePoolMap(s) ==
    IF passes[s].kind = "initial"
    THEN /\ interval' = nextTimer
         /\ armed' = armed \cup {nextTimer}
         /\ nextTimer' = nextTimer + 1
    ELSE UNCHANGED <<interval, armed, nextTimer>>

\* fetchPoolsByPair once the index query has settled: the candidates (or the
\* fallback list), the split by this.pools.has, and initializePools
fetchPoolsByPairIndexSettles(s, response) ==
    /\ ~exited
    /\ passes[s].pc = "awaitIndex"
    /\ passes[s].kind = "onDemand"
    /\ LET pair == sortAndConvertTokens(passes[s].tokenA, passes[s].tokenB)
           poolKeys == PairPoolKeys(response, pair[1], pair[2])
       IN  passes' = [passes EXCEPT
                ![s].pc = "awaitBatches",
                ![s].indexFailed = response # "ok",
                ![s].poolKeys = poolKeys,
                ![s].oldPoolIds = PoolIdsOf(InitializedPoolKeys(pools, poolKeys)),
                ![s].batches = initializePools(
                                  UninitializedPoolKeys(pools, poolKeys),
                                  BatchMaxTime(FETCH_POOL_IDENTIFIER_TIMEOUT) # 0)]
    /\ UNCHANGED <<pools, interval, armed, nextTimer, released, exited, priceCall, idleVars, dexParam>>

\* updatePoolMap once the index query has returned a valid list
updatePoolMapIndexReturns(s) ==
    /\ ~exited
    /\ passes[s].pc = "awaitIndex"
    /\ passes[s].kind \in {"initial", "scheduled"}
    /\ LET poolKeys == fetchAllPoolKeys(IndexPools)
       IN  passes' = [passes EXCEPT
                ![s].pc = "awaitBatches",
                ![s].poolKeys = poolKeys,
                ![s].batches = initializePools(UninitializedPoolKeys(pools, poolKeys), FALSE)]
    /\ UNCHANGED <<pools, interval, armed, nextTimer, released, exited, priceCall, idleVars, dexParam>>

\* mutant: the error of the index query is thrown on to the caller
updatePoolMapIndexFailsRethrows(s, response) ==
    /\ ~exited
    /\ passes[s].pc = "awaitIndex"
    /\ passes[s].kind \in {"initial", "scheduled"}
    /\ response # "ok"
    /\ passes' = [passes EXCEPT ![s].pc = "unhandledRejection",
                                ![s].indexFailed = TRUE]
    /\ UNCHANGED <<pools, interval, armed, nextTimer, released, exited, priceCall,
                   idleVars, dexParam>>

\* updatePoolMap when the index query fails or is malformed: the error is
\* logged and updatePoolMap returns; the failure stays on record until the
\* scheduler's next pass
updatePoolMapIndexFails(s, response) ==
    /\ ~exited
    /\ passes[s].pc = "awaitIndex"
    /\ passes[s].kind \in {"initial", "scheduled"}
    /\ response # "ok"
    /\ AfterUpdatePoolMap(s)
    /\ passes' = [passes EXCEPT ![s] = [IdlePass EXCEPT !.indexFailed = TRUE]]
    /\ UNCHANGED <<pools, released, exited, priceCall, idleVars, dexParam>>

\* getQuoteData of batch b returns: the pools are built and set in the registry
getQuoteDataReturns(s, b) ==
    /\ ~exited
    /\ b \in DOMAIN passes[s].batches
    /\ passes[s].batches[b].read = "inflight"
    /\ pools' = InsertPools(pools, ConstructedKeys(passes[s].batches[b]), s,
                            passes[s].blockNumber)
    /\ passes' = [passes EXCEPT ![s].batches[b] = BatchAfterRead(passes[s].batches[b])]
    /\ UNCHANGED <<interval, armed, nextTimer, released, exited, priceCall, idleVars, dexParam>>

\* getQuoteData of batch b rejects
getQuoteDataFails(s, b) ==
    /\ ~exited
    /\ b \in DOMAIN passes[s].batches
    /\ passes[s].batches[b].read = "inflight"
    /\ passes' = [passes EXCEPT ![s].batches[b] = BatchAfterReadError(passes[s].batches[b])]
    /\ UNCHANGED <<pools, interval, armed, nextTimer, released, exited, priceCall, idleVars, dexParam>>

\* the deadline of batch b elapses before its read settles
BatchTimeout(s, b) ==
    /\ ~exited
    /\ b \in DOMAIN passes[s].batches
    /\ passes[s].batches[b].hasDeadline
    /\ passes[s].batches[b].promise = "pending"
    /\ passes' = [passes EXCEPT ![s].batches[b] = BatchAfterTimeout(passes[s].batches[b])]
    /\ UNCHANGED <<pools, interval, armed, nextTimer, released, exited, priceCall, idleVars, dexParam>>

\* fetchPoolsByPair returns once every batch promise has settled
fetchPoolsByPairReturns(s) ==
    /\ ~exited
    /\ passes[s].pc = "awaitBatches"
    /\ passes[s].kind = "onDemand"
    /\ AllSettled(passes[s].batches)
    /\ passes' = [passes EXCEPT
            ![s].pc = "done",
            ![s].result = passes[s].oldPoolIds \o NewPoolIds(passes[s].batches)]
    /\ UNCHANGED <<pools, interval, armed, nextTimer, released, exited, priceCall, idleVars, dexParam>>

\* updatePoolMap returns once every batch promise has settled
updatePoolMapReturns(s) ==
    /\ ~exited
    /\ passes[s].pc = "awaitBatches"
    /\ passes[s].kind \in {"initial", "scheduled"}
    /\ AllSettled(passes[s].batches)
    /\ AfterUpdatePoolMap(s)
    /\ passes' = [passes EXCEPT ![s] = IdlePass]
    /\ UNCHANGED <<pools, released, exited, priceCall, idleVars, dexParam>>

\* the caller of getPoolIdentifiers drops the result; the slot is reused once
\* no read of the pass is outstanding
Retire(s) ==
    /\ ~exited
    /\ passes[s].pc = "done"
    /\ \A b \in DOMAIN passes[s].batches : passes[s].batches[b].read # "inflight"
    /\ passes' = [passes EXCEPT ![s] = IdlePass]
    /\ UNCHANGED <<pools, interval, armed, nextTimer, released, exited, priceCall, idleVars, dexParam>>

releaseResources ==
    /\ ~exited
    /\ IF interval # NoTimer
       THEN /\ armed' = armed \ {interval}
            /\ interval' = NoTimer
       ELSE UNCHANGED <<armed, interval>>
    /\ released' = TRUE
    /\ UNCHANGED <<pools, nextTimer, passes, exited, priceCall, idleVars, dexParam>>

\* mutant: a quote that finds no candidate starts a discovery for its pair
getPricesVolumeDiscovers(srcToken, destToken, amounts, side, blockNumber, limitPools) ==
    /\ ~exited
    /\ \A s \in Slots : passes[s].pc = "idle"
    /\ dexParam = NoParam
    /\ LET candidates == getInitializedPools(pools, srcToken, destToken, limitPools)
           s == CHOOSE d \in DemandSlots : TRUE
       IN  /\ priceCall' = [side |-> side, srcToken |-> srcToken, destToken |-> destToken,
                            amounts |-> amounts, blockNumber |-> blockNumber,
                            limitPools |-> limitPools,
                            candidates |-> candidates,
                            result |-> PoolLoop(candidates, srcToken, destToken,
                                                amounts, side, blockNumber)]
           /\ passes' = IF candidates = <<>>
                        THEN [passes EXCEPT ![s] =
                                FreshPass("onDemand", srcToken, destToken, blockNumber,
                                          "awaitIndex")]
                        ELSE passes
    /\ dexParam' = NoParam
    /\ UNCHANGED <<pools, interval, armed, nextTimer, released, exited, idleVars>>

\* getPricesVolume: synchronous, reads the registry only
getPricesVolume(srcToken, destToken, amounts, side, blockNumber, limitPools) ==
    /\ ~exited
    /\ \A s \in Slots : passes[s].pc = "idle"
    /\ dexParam = NoParam
    /\ LET candidates == getInitializedPools(pools, srcToken, destToken, limitPools)
       IN  priceCall' = [side |-> side, srcToken |-> srcToken, destToken |-> destToken,
                         amounts |-> amounts, blockNumber |-> blockNumber,
                         limitPools |-> limitPools,
                         candidates |-> candidates,
                         result |-> PoolLoop(candidates, srcToken, destToken,
                                             amounts, side, blockNumber)]
    /\ dexParam' = NoParam
    /\ UNCHANGED <<pools, interval, armed, nextTimer, passes, released, exited, idleVars>>

\* getDexParam for a price point of the last quote: synchronous, reads nothing
\* but its arguments
getDexParam(srcAmount, destAmount, data, side) ==
    /\ ~exited
    /\ dexParam' = [side |-> side, srcAmount |-> srcAmount, destAmount |-> destAmount,
                    data |-> data,
                    args |-> SwapArguments(srcAmount, destAmount, data, side)]
    /\ UNCHANGED <<pools, interval, armed, nextTimer, passes, released, exited,
                   priceCall, idleVars>>

Batch(s) ==
    \/ \E b \in DOMAIN passes[s].batches : getQuoteDataReturns(s, b)
    \/ \E b \in DOMAIN passes[s].batches : getQuoteDataFails(s, b)
    \/ \E b \in DOMAIN passes[s].batches : BatchTimeout(s, b)

DiscoverySteps(s) ==
    \/ \E response \in IndexResponses : fetchPoolsByPairIndexSettles(s, response)
    \/ fetchPoolsByPairReturns(s)
    \/ Retire(s)

Refresh(s) ==
    \/ \E blockNumber \in Blocks : initializePricing(s, blockNumber)
    \/ \E handle \in armed : TimerFires(s, handle)
    \/ \E blockNumber \in Blocks : getBlockNumberReturns(s, blockNumber)
    \/ \E fatal \in BOOLEAN : getBlockNumberFails(s, fatal)
    \/ RejectionReported(s)
    \/ updatePoolMapIndexReturns(s)
    \/ \E response \in IndexResponses : updatePoolMapIndexFails(s, response)
    \/ updatePoolMapReturns(s)

Next ==
    \/ \E s \in DemandSlots, pair \in DiscoveryPairs, blockNumber \in Blocks :
          getPoolIdentifiers(s, pair[1], pair[2], blockNumber)
    \/ \E s \in DemandSlots : DiscoverySteps(s)
    \/ \E s \in RefreshSlots : Refresh(s)
    \/ \E s \in Slots : Batch(s)
    \/ releaseResources

Spec == Init /\ [][Next]_vars

(***************************************************************************)
(* The program under the fairness its runtime gives: an armed deadline     *)
(* fires, and a call whose awaited promises have all settled resumes.  No  *)
(* fairness is stated for the index query or the on-chain reads: they may  *)
(* never answer.                                                           *)
(***************************************************************************)
Fairness ==
    \A s \in DemandSlots :
        /\ WF_vars(\E b \in DOMAIN passes[s].batches : BatchTimeout(s, b))
        /\ WF_vars(fetchPoolsByPairReturns(s))

SpecLive == Init /\ [][Next]_vars /\ Fairness

(***************************************************************************)
(* A sequential client: discovery calls for any pair, one at a time, and   *)
(* quotes between them.                                                    *)
(***************************************************************************)
K(token0, token1, i) ==
    PoolKey(token0, token1,
            PoolConfig(FALLBACK_POOL_PARAMETERS[i].tickSpacing,
                       FALLBACK_POOL_PARAMETERS[i].fee, 0)).string_id

KOracle == PoolKey(0, 3, PoolConfig(FULL_RANGE_TICK_SPACING, "0", configOracle)).string_id

AmountLists == {<<>>, <<2>>, <<2, 12>>, <<12, 2>>, <<2, 20>>}

LimitLists ==
    {"undefined",
     <<K(3, 5, 1), K(3, 5, 4), K(3, 5, 1)>>,
     <<KOracle, K(3, 5, 2), K(0, 3, 5)>>,
     <<K(5, 7, 1), K(0, 3, 1)>>}

\* the price points of the last quote, which the call-builder works from
PricePoints == IF priceCall.side = "none" THEN <<>> ELSE priceCall.result

\* the amount the call is built for, as the decimal string the caller passes,
\* and the amount of the other side
ParamAmounts == {NumberAsString(a) : a \in {2, 7, 12}}

OtherAmounts == {NumberAsString(6)}

NextQuote ==
    \/ \E s \in DemandSlots, pair \in TokenPairs, blockNumber \in Blocks :
          getPoolIdentifiers(s, pair[1], pair[2], blockNumber)
    \/ \E s \in DemandSlots : DiscoverySteps(s)
    \/ \E s \in DemandSlots : Batch(s)
    \/ \E pair \in TokenPairs, amounts \in AmountLists, side \in {"SELL", "BUY"},
          blockNumber \in Blocks, limitPools \in LimitLists :
          getPricesVolume(pair[1], pair[2], amounts, side, blockNumber, limitPools)
    \/ \E point \in Range(PricePoints), amount \in ParamAmounts, other \in OtherAmounts :
          getDexParam(IF priceCall.side = "SELL" THEN amount ELSE other,
                      IF priceCall.side = "SELL" THEN other ELSE amount,
                      point.data, priceCall.side)

SpecQuote == Init /\ [][NextQuote]_vars

(***************************************************************************)
(* IdleDaoEventPool: processLog and generateState, one call at a time.     *)
(***************************************************************************)
ekuboVars == <<pools, interval, armed, nextTimer, passes, released, exited,
               priceCall, dexParam>>

\* the catch block of processLog: the call settles as catchParseLogError leaves it
CaughtInProcessLog(call, readFailed, e) ==
    IF catchParseLogError(e) = "returns"
    THEN Settled(call, idleState, readFailed, "fulfilled", <<>>)
    ELSE Settled(call, idleState, readFailed, "rejected", <<>>)

\* processLog(state, log) up to its first await: the log is decoded; a log
\* that does not decode or has no handler ends the call with null, a handled
\* one calls the handler, which calls generateState, which issues the read
processLog(log) ==
    /\ idleCall.pc = "idle"
    /\ Len(idleLog) < MaxCalls
    /\ LET event == logDecoder(log)
           call == [IdleCall EXCEPT !.op = "processLog", !.log = log]
       IN  IF event.threw
           THEN /\ idleLog' = Append(idleLog, CaughtInProcessLog(call, FALSE, "ParseError"))
                /\ UNCHANGED <<idleCall, idleState>>
           ELSE IF event.name \in handlers
           THEN /\ idleCall' = [call EXCEPT !.pc = "awaitRead",
                                            !.blockNumber = log.blockNumber,
                                            !.reads = 1]
                /\ UNCHANGED <<idleLog, idleState>>
           ELSE /\ idleLog' = Append(idleLog, Settled(call, idleState, FALSE, "fulfilled", <<>>))
                /\ UNCHANGED <<idleCall, idleState>>
    /\ UNCHANGED ekuboVars

\* generateState(blockNumber) up to the await of the virtualPrice call
generateState(blockNumber) ==
    /\ idleCall.pc = "idle"
    /\ Len(idleLog) < MaxCalls
    /\ idleCall' = [IdleCall EXCEPT !.pc = "awaitRead", !.op = "generateState",
                                    !.blockNumber = blockNumber, !.reads = 1]
    /\ UNCHANGED <<idleLog, idleState>>
    /\ UNCHANGED ekuboVars

\* mutant: the read is not pinned to blockNumber and is served at the latest
\* block the store has seen
virtualPriceReturnsAtLatest ==
    /\ idleCall.pc = "awaitRead"
    /\ LET seen == {idleLog[i].blockNumber : i \in DOMAIN idleLog} \cup {idleCall.blockNumber}
           latest == CHOOSE b \in seen : \A c \in seen : c <= b
           result == << PoolState(virtualPrice(latest)) >>
       IN  /\ idleLog' = Append(idleLog, Settled(idleCall, idleState, FALSE, "fulfilled", result))
           /\ idleState' = setState(idleState, result)
    /\ idleCall' = IdleCall
    /\ UNCHANGED ekuboVars

\* mutant: the Transfer handler adds the transferred value to the price held
virtualPriceReturnsIncremental ==
    /\ idleCall.pc = "awaitRead"
    /\ LET read == PoolState(virtualPrice(idleCall.blockNumber))
           result == IF idleCall.op = "processLog" /\ idleState # <<>>
                     THEN << [tokenPrice |-> idleState[1].tokenPrice + idleCall.log.value] >>
                     ELSE << read >>
       IN  /\ idleLog' = Append(idleLog, Settled(idleCall, idleState, FALSE, "fulfilled", result))
           /\ idleState' = setState(idleState, result)
    /\ idleCall' = IdleCall
    /\ UNCHANGED ekuboVars

\* the virtualPrice call returns: generateState returns the snapshot; under
\* processLog the handler returns it and processLog returns it
virtualPriceReturns ==
    /\ idleCall.pc = "awaitRead"
    /\ LET result == << PoolState(virtualPrice(idleCall.blockNumber)) >>
       IN  /\ idleLog' = Append(idleLog, Settled(idleCall, idleState, FALSE, "fulfilled", result))
           /\ idleState' = setState(idleState, result)
    /\ idleCall' = IdleCall
    /\ UNCHANGED ekuboVars

\* the virtualPrice call rejects: generateState rejects; under processLog the
\* rejection is thrown at the await inside the try block and caught there
virtualPriceFails ==
    /\ idleCall.pc = "awaitRead"
    /\ idleLog' = Append(idleLog,
                         IF idleCall.op = "processLog"
                         THEN CaughtInProcessLog(idleCall, TRUE, "ReadError")
                         ELSE Settled(idleCall, idleState, TRUE, "rejected", <<>>))
    /\ idleCall' = IdleCall
    /\ UNCHANGED idleState
    /\ UNCHANGED ekuboVars

NextIdle ==
    \/ \E log \in Logs : processLog(log)
    \/ \E blockNumber \in LogBlocks : generateState(blockNumber)
    \/ virtualPriceReturns
    \/ virtualPriceFails

SpecIdle == Init /\ [][NextIdle]_vars

(***************************************************************************)
(* Properties.                                                             *)
(***************************************************************************)
AllBatches == UNION {{<<s, b>> : b \in DOMAIN passes[s].batches} : s \in Slots}

BatchAt(sb) == passes[sb[1]].batches[sb[2]]

\* the canonical form of a pair: the converted addresses, lower first
Lower(tokenA, tokenB) ==
    Min(convertParaSwapToEkubo(tokenA.address), convertParaSwapToEkubo(tokenB.address))

Higher(tokenA, tokenB) ==
    LET a == convertParaSwapToEkubo(tokenA.address)
        b == convertParaSwapToEkubo(tokenB.address)
    IN  IF a < b THEN b ELSE a

OnCanonicalPair(poolKey, tokenA, tokenB) ==
    /\ poolKey.token0 = Lower(tokenA, tokenB)
    /\ poolKey.token1 = Higher(tokenA, tokenB)

\* C1: once an identifier is in the Registry, no later insert (re-discovery or
\* a concurrent pass) changes the Pool Object stored under it: the insert
\* that landed first stays.
C1_FirstInsertWins ==
    [][\A poolId \in PoolIds(pools) :
          /\ MapHas(pools', poolId)
          /\ MapGet(pools', poolId).ref = MapGet(pools, poolId).ref]_vars

(***************************************************************************)
(* Quoting claims, over the last getPricesVolume call.                     *)
(***************************************************************************)
Called == priceCall.side # "none"

CallAmountToken == IF priceCall.side = "BUY" THEN priceCall.destToken ELSE priceCall.srcToken

CallAmountAddress == convertParaSwapToEkubo(CallAmountToken.address)

CallUnit == getBigIntPow(CallAmountToken.decimals)

Signed(amount) == IF priceCall.side = "BUY" THEN -amount ELSE amount

\* the quote of a candidate pool for a requested amount of the call
CallQuote(pool, amount) ==
    Quote(pool, Signed(amount), CallAmountAddress, priceCall.blockNumber)

CallThrows(pool, amount) ==
    QuoteThrows(pool, Signed(amount), CallAmountAddress, priceCall.blockNumber)

\* the candidate pool a price point was computed on
PointPool(point) ==
    CHOOSE pool \in Range(priceCall.candidates) :
        pool.key.string_id = point.poolIdentifier

\* C2: on an exact-output (BUY) call, every price point returned belongs to a
\* pool whose quote for each requested amount consumed exactly the negated
\* amount; a pool that does not fully consume some requested amount has no
\* price point.
C2_ExactOutFullyConsumed ==
    (Called /\ priceCall.side = "BUY") =>
        /\ \A k \in DOMAIN priceCall.result :
              /\ \E pool \in Range(priceCall.candidates) :
                     pool.key.string_id = priceCall.result[k].poolIdentifier
              /\ \A i \in DOMAIN priceCall.amounts :
                     CallQuote(PointPool(priceCall.result[k]),
                               priceCall.amounts[i]).consumedAmount
                       = -priceCall.amounts[i]
        /\ \A pool \in Range(priceCall.candidates) :
              (\E i \in DOMAIN priceCall.amounts :
                   CallQuote(pool, priceCall.amounts[i]).consumedAmount
                     # -priceCall.amounts[i])
              => \A k \in DOMAIN priceCall.result :
                     priceCall.result[k].poolIdentifier # pool.key.string_id

\* a BUY call that returned a price point for several amounts while another
\* candidate on the pair was starved
C2_Witness ==
    /\ Called /\ priceCall.side = "BUY"
    /\ Len(priceCall.amounts) = 2
    /\ priceCall.result # <<>>
    /\ \E pool \in Range(priceCall.candidates) :
          /\ OnCanonicalPair(pool.key, priceCall.srcToken, priceCall.destToken)
          /\ \E i \in DOMAIN priceCall.amounts :
                /\ ~CallThrows(pool, priceCall.amounts[i])
                /\ CallQuote(pool, priceCall.amounts[i]).consumedAmount
                     # -priceCall.amounts[i]

\* C3: every price point has prices and gasCost of the length of the requested
\* amounts, entry i being the calculated amount (resp. gas) of the pool's quote
\* for the i-th amount, and unit the calculated amount of the unit quote.
C3_PositionalPrices ==
    Called =>
        \A k \in DOMAIN priceCall.result :
            LET point == priceCall.result[k]
                pool == PointPool(point)
            IN  /\ Len(point.prices) = Len(priceCall.amounts)
                /\ Len(point.gasCost) = Len(priceCall.amounts)
                /\ \A i \in DOMAIN priceCall.amounts :
                      /\ point.prices[i]
                           = CallQuote(pool, priceCall.amounts[i]).calculatedAmount
                      /\ point.gasCost[i]
                           = CallQuote(pool, priceCall.amounts[i]).gasConsumed
                /\ point.unit = CallQuote(pool, CallUnit).calculatedAmount

\* a call with two different amounts, none equal to the unit, that returned a
\* price point whose two prices differ from each other and from the unit price
C3_Witness ==
    /\ Called
    /\ Len(priceCall.amounts) = 2
    /\ \E k \in DOMAIN priceCall.result :
          /\ priceCall.result[k].prices[1] # priceCall.result[k].prices[2]
          /\ priceCall.result[k].unit # priceCall.result[k].prices[1]
          /\ priceCall.result[k].unit # priceCall.result[k].prices[2]

\* a candidate is skipped: its pair does not match, or a quote throws, or (BUY)
\* a quote is starved
Skipped(pool) ==
    \/ ~OnCanonicalPair(pool.key, priceCall.srcToken, priceCall.destToken)
    \/ \E amount \in {CallUnit} \cup Range(priceCall.amounts) :
          \/ CallThrows(pool, amount)
          \/ /\ priceCall.side = "BUY"
             /\ CallQuote(pool, amount).consumedAmount # -amount

RECURSIVE SurvivorIds(_)
SurvivorIds(candidates) ==
    IF candidates = <<>> THEN <<>>
    ELSE (IF Skipped(Head(candidates)) THEN <<>>
          ELSE <<Head(candidates).key.string_id>>)
         \o SurvivorIds(Tail(candidates))

\* C4: a skipped candidate neither aborts the request nor removes another
\* pool's result: the result holds, in candidate order, exactly one price
\* point per candidate that was not skipped (the empty sequence if none).
C4_SkipsAreIsolated ==
    Called =>
        /\ Len(priceCall.result) = Len(SurvivorIds(priceCall.candidates))
        /\ \A k \in DOMAIN priceCall.result :
              priceCall.result[k].poolIdentifier
                = SurvivorIds(priceCall.candidates)[k]

\* a call where a candidate that threw or was off the pair precedes a
\* candidate that has a price point
C4_Witness ==
    /\ Called
    /\ \E i, j \in DOMAIN priceCall.candidates :
          /\ i < j
          /\ Skipped(priceCall.candidates[i])
          /\ ~Skipped(priceCall.candidates[j])
          /\ \E k \in DOMAIN priceCall.result :
                priceCall.result[k].poolIdentifier
                  = priceCall.candidates[j].key.string_id

\* C5 as stated: the pools getInitializedPools returns are all on the
\* canonical pair of the request, with or without an allow-list.
C5_OnlyPoolsOfThePair ==
    Called =>
        \A i \in DOMAIN priceCall.candidates :
            OnCanonicalPair(priceCall.candidates[i].key,
                            priceCall.srcToken, priceCall.destToken)

\* C5 as amended: without an allow-list getInitializedPools returns only pools
\* on the canonical pair; with an allow-list it returns the tracked pools the
\* list names, in list order, whatever their pair, and getPricesVolume returns
\* no price point for a pool whose pair differs.
C5_PairFilterAmended ==
    Called =>
        /\ priceCall.limitPools = "undefined" =>
              \A i \in DOMAIN priceCall.candidates :
                  OnCanonicalPair(priceCall.candidates[i].key,
                                  priceCall.srcToken, priceCall.destToken)
        /\ priceCall.limitPools # "undefined" =>
              /\ \A i \in DOMAIN priceCall.candidates :
                    priceCall.candidates[i].key.string_id \in Range(priceCall.limitPools)
              /\ \A poolId \in Range(priceCall.limitPools) \cap PoolIds(pools) :
                    \E i \in DOMAIN priceCall.candidates :
                        priceCall.candidates[i] = MapGet(pools, poolId)
        /\ \A k \in DOMAIN priceCall.result :
              OnCanonicalPair(priceCall.result[k].data.poolKey,
                              priceCall.srcToken, priceCall.destToken)

\* a call with an allow-list whose candidates hold a pool of another pair next
\* to a pool of the pair that is priced
C5_Witness ==
    /\ Called
    /\ priceCall.limitPools # "undefined"
    /\ \E i \in DOMAIN priceCall.candidates :
          ~OnCanonicalPair(priceCall.candidates[i].key,
                           priceCall.srcToken, priceCall.destToken)
    /\ priceCall.result # <<>>

(***************************************************************************)
(* Discovery and scheduler claims.                                         *)
(***************************************************************************)
\* C6: the batches of a pass settle independently: a batch whose read returns
\* before its own deadline is fulfilled, its pools are in the Registry, and
\* the identifiers are in the list an on-demand pass returns, whatever
\* happened to its sibling batches.
C6_BatchesSettleIndependently ==
    \A sb \in AllBatches :
        (BatchAt(sb).read = "returned" /\ BatchAt(sb).err # "Timeout") =>
            /\ BatchAt(sb).promise = "fulfilled"
            /\ \A i \in DOMAIN BatchAt(sb).keys :
                  /\ MapHas(pools, BatchAt(sb).keys[i].string_id)
                  /\ passes[sb[1]].pc = "done"
                       => BatchAt(sb).keys[i].string_id \in Range(passes[sb[1]].result)

\* an on-demand pass has returned with one batch timed out or failed and a
\* sibling batch fulfilled, the sibling's identifiers in the result
C6_Witness ==
    \E s \in Slots :
        /\ passes[s].pc = "done"
        /\ Len(passes[s].batches) = 2
        /\ \E a, b \in DOMAIN passes[s].batches :
              /\ passes[s].batches[a].promise = "rejected"
              /\ passes[s].batches[b].promise = "fulfilled"
              /\ passes[s].batches[b].keys # <<>>
              /\ \A i \in DOMAIN passes[s].batches[b].keys :
                    passes[s].batches[b].keys[i].string_id \in Range(passes[s].result)

\* C7 as stated: a batch whose initialization failed has inserted no pool into
\* the Registry, neither before the failure was reported nor afterwards.
C7_FailedBatchInsertsNothing ==
    \A sb \in AllBatches :
        BatchAt(sb).promise = "rejected" => BatchAt(sb).inserted = <<>>

\* C7 as amended: a batch that failed on its deadline or on its read has
\* inserted no pool while its read has not returned; the read of a timed-out
\* batch is not cancelled, and once it returns every pool of the batch is in
\* the Registry although the batch was reported failed.
C7_FailedBatchAmended ==
    \A sb \in AllBatches :
        (BatchAt(sb).promise = "rejected" /\ BatchAt(sb).err \in {"Timeout", "ReadError"}) =>
            IF BatchAt(sb).read = "returned"
            THEN /\ BatchAt(sb).err = "Timeout"
                 /\ BatchAt(sb).inserted = PoolIdsOf(BatchAt(sb).keys)
                 /\ \A i \in DOMAIN BatchAt(sb).keys :
                       MapHas(pools, BatchAt(sb).keys[i].string_id)
            ELSE BatchAt(sb).inserted = <<>>

\* a batch reported failed on its deadline whose read has returned since, its
\* pools in the Registry and not in the returned identifiers
C7_Witness ==
    \E s \in Slots :
        /\ passes[s].pc = "done"
        /\ \E b \in DOMAIN passes[s].batches :
              /\ passes[s].batches[b].err = "Timeout"
              /\ passes[s].batches[b].read = "returned"
              /\ passes[s].batches[b].inserted # <<>>
              /\ \A i \in DOMAIN passes[s].batches[b].keys :
                    /\ MapHas(pools, passes[s].batches[b].keys[i].string_id)
                    /\ passes[s].batches[b].keys[i].string_id \notin Range(passes[s].result)

\* C8: every failure of a scheduled pass is caught by the timer callback: no
\* rejection escapes it and the process keeps running its timer.
C8_ScheduledFailuresCaught ==
    /\ ~exited
    /\ \A s \in Slots : passes[s].pc # "unhandledRejection"

\* C9: once releaseResources has returned, no repeating timer of the instance
\* is armed.
C9_NoTimerAfterRelease ==
    released => armed = {}

\* C10: when the index call fails in fetchPoolsByPair, the candidates are the
\* generic fee/spacing combinations with extension 0 on the canonical pair, in
\* order, plus one oracle configuration exactly when a side is the native asset.
C10_FallbackCandidates ==
    \A s \in Slots :
        (passes[s].kind = "onDemand" /\ passes[s].indexFailed) =>
            LET keys == passes[s].poolKeys
                native == NATIVE_TOKEN_ADDRESS
                            \in {Lower(passes[s].tokenA, passes[s].tokenB),
                                 Higher(passes[s].tokenA, passes[s].tokenB)}
                generic == Len(FALLBACK_POOL_PARAMETERS)
            IN  /\ Len(keys) = generic + (IF native THEN 1 ELSE 0)
                /\ \A i \in DOMAIN keys :
                      OnCanonicalPair(keys[i], passes[s].tokenA, passes[s].tokenB)
                /\ \A i \in 1..generic :
                      /\ keys[i].config.extension = 0
                      /\ keys[i].config.fee = FALLBACK_POOL_PARAMETERS[i].fee
                      /\ keys[i].config.tickSpacing = FALLBACK_POOL_PARAMETERS[i].tickSpacing
                /\ native =>
                      /\ keys[generic + 1].config.extension = configOracle
                      /\ keys[generic + 1].config.tickSpacing = FULL_RANGE_TICK_SPACING
                /\ Cardinality({keys[i].string_id : i \in DOMAIN keys}) = Len(keys)

\* the index call failed for a pair with the native asset given second, and
\* the candidates are the five generic configurations and the oracle one
C10_Witness ==
    \E s \in Slots :
        /\ passes[s].kind = "onDemand" /\ passes[s].indexFailed
        /\ passes[s].tokenB = ETH
        /\ Len(passes[s].poolKeys) = Len(FALLBACK_POOL_PARAMETERS) + 1

(***************************************************************************)
(* Event-sourced store claims, over the settled calls of IdleDaoEventPool. *)
(***************************************************************************)
\* a log the ERC20 interface cannot decode, or whose event has no handler
Unhandled(log) == log.topic # "Transfer" \/ log.data # "wellFormed"

SettledCalls(op) == {i \in DOMAIN idleLog : idleLog[i].op = op}

\* C11: processLog returns null and raises no error for every log that cannot
\* be decoded or whose event has no registered handler, and issues no
\* point-in-time read for it.
C11_UnhandledLogsIgnored ==
    /\ \A i \in SettledCalls("processLog") :
          Unhandled(idleLog[i].log) =>
              /\ idleLog[i].status = "fulfilled"
              /\ idleLog[i].value = <<>>
              /\ idleLog[i].reads = 0
    /\ (idleCall.op = "processLog" /\ Unhandled(idleCall.log)) => idleCall.reads = 0

C11_Witness ==
    /\ \E i \in SettledCalls("processLog") :
          idleLog[i].log.topic = "Approval" /\ idleLog[i].log.data = "wellFormed"
    /\ \E i \in SettledCalls("processLog") : idleLog[i].log.data = "truncated"
    /\ \E i \in SettledCalls("processLog") : idleLog[i].log.topic = "Swap"

\* C12: a processLog call on a Transfer log whose point-in-time read fails
\* settles with an error the caller sees, never with null or a snapshot.
C12_ReadFailureIsAnError ==
    \A i \in SettledCalls("processLog") :
        (~Unhandled(idleLog[i].log) /\ idleLog[i].readFailed) =>
            idleLog[i].status = "rejected"

\* C13: two generateState calls at the same block return the same snapshot,
\* whatever snapshot the store held when each started and whatever logs were
\* processed between them.
C13_RegenerateIdempotent ==
    \A i, j \in SettledCalls("generateState") :
        (/\ idleLog[i].blockNumber = idleLog[j].blockNumber
         /\ idleLog[i].status = "fulfilled"
         /\ idleLog[j].status = "fulfilled")
        => idleLog[i].value = idleLog[j].value

C13_Witness ==
    \E i, j \in SettledCalls("generateState") :
        /\ i < j
        /\ idleLog[i].blockNumber = idleLog[j].blockNumber
        /\ idleLog[i].status = "fulfilled"
        /\ idleLog[j].status = "fulfilled"
        /\ idleLog[i].before # idleLog[j].before
        /\ idleLog[j].before # idleLog[j].value
        /\ \E k \in SettledCalls("processLog") :
              i < k /\ k < j /\ idleLog[k].value # <<>>

(***************************************************************************)
(* Call-builder claims, over the last getDexParam call.                    *)
(***************************************************************************)
\* the amount a getDexParam call was made for
ParamAmount ==
    ParseDigits(IF dexParam.side = "SELL" THEN dexParam.srcAmount ELSE dexParam.destAmount, 0)

\* the candidate pool of the last quote a getDexParam call is about
ParamPool ==
    CHOOSE pool \in Range(priceCall.candidates) : pool.key = dexParam.data.poolKey

\* C14: every price point holds, under each requested amount, the cursor the
\* pool's quote for that amount produced, and getDexParam called with the price
\* point's data and a requested amount passes that cursor (and the signed
\* amount) to the call; an amount the map has no entry for gives cursor 0.
C14_ContinuationCursor ==
    /\ Called =>
          \A i \in DOMAIN priceCall.result :
             \A j \in DOMAIN priceCall.amounts :
                LET point == priceCall.result[i]
                    a == priceCall.amounts[j]
                IN  /\ a \in DOMAIN point.data.skipAhead
                    /\ point.data.skipAhead[a] = CallQuote(PointPool(point), a).skipAhead
    /\ dexParam.side # "none" =>
          /\ dexParam.args.amount = Signed(ParamAmount)
          /\ dexParam.args.poolKey = dexParam.data.poolKey
          /\ dexParam.args.skipAhead =
                IF ParamAmount \in Range(priceCall.amounts) \cup {CallUnit}
                THEN CallQuote(ParamPool, ParamAmount).skipAhead
                ELSE 0

C14_Witness ==
    /\ dexParam.side = "BUY"
    /\ ParamAmount \in Range(priceCall.amounts)
    /\ ParamAmount # CallUnit
    /\ dexParam.args.skipAhead > 0
    /\ Len(priceCall.result) > 1

(***************************************************************************)
(* Registry claims.                                                        *)
(***************************************************************************)
\* C15: every Pool Object in the Registry has received its initial snapshot,
\* the state read for its key at some block, in every reachable state: also
\* between the steps of a batch and after a batch has failed.
C15_RegistryPoolsInitialized ==
    \A i \in DOMAIN pools :
        /\ pools[i].pool.isInitialized
        /\ \E blockNumber \in Blocks :
              pools[i].pool.state = ChainState(pools[i].pool.key, blockNumber)

C15_Witness ==
    /\ pools # <<>>
    /\ \E s \in Slots :
          /\ \E b \in DOMAIN passes[s].batches :
                /\ passes[s].batches[b].promise = "rejected"
                /\ passes[s].batches[b].inserted # <<>>
          /\ \E b \in DOMAIN passes[s].batches : passes[s].batches[b].read = "inflight"

(***************************************************************************)
(* Starvation claims, over the last getPricesVolume call.                  *)
(***************************************************************************)
\* the pool's quote for an amount of the call fills the whole amount
Fills(pool, amount) ==
    /\ ~CallThrows(pool, amount)
    /\ Abs(CallQuote(pool, amount).consumedAmount) = amount

HasPoint(pool) ==
    \E i \in DOMAIN priceCall.result :
        priceCall.result[i].poolIdentifier = pool.key.string_id

\* C16: on an exact-output (BUY) call, a pool that cannot fully fill the unit
\* amount (one whole token of the destination token) has no price point, even
\* when it can fill every requested amount.
C16_UnitAmountCountsForStarvation ==
    (Called /\ priceCall.side = "BUY") =>
        \A pool \in Range(priceCall.candidates) :
            (~CallThrows(pool, CallUnit) /\ ~Fills(pool, CallUnit)) => ~HasPoint(pool)

C16_Witness ==
    /\ Called
    /\ priceCall.side = "BUY"
    /\ priceCall.amounts # <<>>
    /\ \E pool \in Range(priceCall.candidates) :
          /\ OnCanonicalPair(pool.key, priceCall.srcToken, priceCall.destToken)
          /\ ~CallThrows(pool, CallUnit)
          /\ ~Fills(pool, CallUnit)
          /\ \A j \in DOMAIN priceCall.amounts : Fills(pool, priceCall.amounts[j])
          /\ ~HasPoint(pool)
    /\ priceCall.result # <<>>

\* C17: on a sell (exact-input) call, a pool whose depth does not fill one of
\* the requested amounts reports no price for that amount: its price point
\* covers at most the amounts it fills, or it has no price point.
C17_SellNeverPricesUnfilledAmount ==
    (Called /\ priceCall.side = "SELL") =>
        \A i \in DOMAIN priceCall.result :
            LET point == priceCall.result[i]
            IN  \A j \in DOMAIN priceCall.amounts :
                    ~Fills(PointPool(point), priceCall.amounts[j])
                        => j \notin DOMAIN point.prices

(***************************************************************************)
(* Batching claims.                                                        *)
(***************************************************************************)
\* the configurations of a sequence of batches, in batch order
RECURSIVE BatchKeys(_)
BatchKeys(batches) ==
    IF batches = <<>> THEN <<>> ELSE Head(batches).keys \o BatchKeys(Tail(batches))

\* the step of a pass that filters its candidates and calls initializePools
Batches(s) == passes[s].pc = "awaitIndex" /\ passes'[s].pc = "awaitBatches"

\* C18: when a pass calls initializePools, the candidates that are not in the
\* Registry at that moment are split, in order, into consecutive batches of
\* at most MAX_POOL_BATCH_COUNT: the batches taken together are exactly that
\* list, every batch but the last is full, there are ceil(n / 5) of them, one
\* read is in flight per batch, and there is no batch (no read) for an empty
\* list; no configuration already in the Registry is in a batch.
C18_BatchPartition ==
    [][\A s \in Slots :
          Batches(s) =>
             LET batches == passes'[s].batches
                 tracked == PoolIds(pools)
                 candidates == passes'[s].poolKeys
                 untracked == {i \in DOMAIN candidates : candidates[i].string_id \notin tracked}
                 n == Cardinality(untracked)
             IN  /\ Len(BatchKeys(batches)) = n
                 /\ \A i \in DOMAIN candidates :
                       LET before == Cardinality({j \in untracked : j < i})
                       IN  i \in untracked => BatchKeys(batches)[before + 1] = candidates[i]
                 /\ \A b \in DOMAIN batches :
                       /\ Len(batches[b].keys) >= 1
                       /\ Len(batches[b].keys) <= 5
                       /\ b < Len(batches) => Len(batches[b].keys) = 5
                       /\ batches[b].read = "inflight"
                 /\ 5 * Len(batches) >= n
                 /\ 5 * Len(batches) < n + 5
                 /\ n = 0 => batches = <<>>
                 /\ \A i \in DOMAIN BatchKeys(batches) :
                       BatchKeys(batches)[i].string_id \notin tracked]_vars

C18_Witness ==
    \E s \in Slots :
        /\ passes[s].pc = "awaitBatches"
        /\ Len(passes[s].batches) = 2
        /\ Len(passes[s].batches[1].keys) = 5
        /\ Len(passes[s].batches[2].keys) = 1
        /\ \A b \in DOMAIN passes[s].batches : passes[s].batches[b].read = "inflight"
        /\ pools # <<>>

(***************************************************************************)
(* Allow-list and identifier claims.                                       *)
(***************************************************************************)
\* the positions of an allow-list whose identifier is in the Registry
Present(limitPools) == {i \in DOMAIN limitPools : limitPools[i] \in PoolIds(pools)}

\* C19: with an allow-list, the identifiers that are not in the Registry are
\* dropped and the call goes on: the candidates are the Registry's pools of
\* the remaining identifiers, one per occurrence, in allow-list order, and
\* the call returns its result for them.
C19_AllowListDropsMissing ==
    (Called /\ priceCall.limitPools # "undefined") =>
        LET limitPools == priceCall.limitPools
            present == Present(limitPools)
        IN  /\ Len(priceCall.candidates) = Cardinality(present)
            /\ \A i \in present :
                  priceCall.candidates[Cardinality({j \in present : j <= i})]
                      = MapGet(pools, limitPools[i])
            /\ [k \in DOMAIN priceCall.result |-> priceCall.result[k].poolIdentifier]
                  = SurvivorIds(priceCall.candidates)

C19_Witness ==
    /\ Called
    /\ priceCall.limitPools # "undefined"
    /\ \E i, j \in DOMAIN priceCall.limitPools :
          /\ i < j
          /\ i \notin Present(priceCall.limitPools)
          /\ j \in Present(priceCall.limitPools)
    /\ Len(priceCall.candidates) > 1
    /\ priceCall.result # <<>>

\* the on-demand passes that have returned and whose result the caller holds
Returned == {s \in Slots : passes[s].kind = "onDemand" /\ passes[s].pc = "done"}

\* C20: every identifier getPoolIdentifiers returned is a key of the Registry,
\* from the return on (no entry is ever removed), the pool under it is on the
\* canonical pair of the request, and no identifier of a batch that failed in
\* the pass is returned.
C20_ReturnedIdentifiersTracked ==
    /\ [](\A s \in Returned :
             /\ \A i \in DOMAIN passes[s].result :
                   /\ MapHas(pools, passes[s].result[i])
                   /\ OnCanonicalPair(MapGet(pools, passes[s].result[i]).key,
                                      passes[s].tokenA, passes[s].tokenB)
             /\ \A b \in DOMAIN passes[s].batches :
                   passes[s].batches[b].promise = "rejected" =>
                      \A k \in DOMAIN passes[s].batches[b].keys :
                         passes[s].batches[b].keys[k].string_id \notin Range(passes[s].result))
    /\ [][PoolIds(pools) \subseteq PoolIds(pools')]_vars

\* a returned pass with a fulfilled batch and a failed one, whose pools were
\* inserted after the failure
C20_Witness ==
    \E s \in Returned :
        /\ passes[s].result # <<>>
        /\ \E b \in DOMAIN passes[s].batches :
              /\ passes[s].batches[b].promise = "rejected"
              /\ passes[s].batches[b].inserted # <<>>

(***************************************************************************)
(* Termination claims.                                                     *)
(***************************************************************************)
\* C21: in a running process, an on-demand pass whose index query has settled
\* returns, whether or not the reads of its batches ever complete: every
\* batch settles by its deadline at the latest, with a timeout error if the
\* deadline comes first.
C21_OnDemandPassTerminates ==
    \A s \in DemandSlots :
        (passes[s].pc = "awaitBatches") ~> (passes[s].pc = "done" \/ exited)

\* a pass has returned while a read of a timed-out batch is still in flight
C21_Witness ==
    \E s \in DemandSlots :
        /\ passes[s].pc = "done"
        /\ \E b \in DOMAIN passes[s].batches :
              /\ passes[s].batches[b].read = "inflight"
              /\ passes[s].batches[b].err = "Timeout"
        /\ ~exited

(***************************************************************************)
(* Configuration claims.                                                   *)
(***************************************************************************)
\* C22: every configuration a pass hands to initializePools, from the index
\* or from the fallback list, has the extension of the vanilla or of the
\* oracle variant, and no batch fails with the unknown-extension error.
C22_NoUnknownExtension ==
    \A sb \in AllBatches :
        /\ \A k \in DOMAIN BatchAt(sb).keys :
              BatchAt(sb).keys[k].config.extension \in {0, configOracle}
        /\ BatchAt(sb).err # "UnknownExtension"
        /\ BatchAt(sb).read = "returned" => BatchAt(sb).inserted = PoolIdsOf(BatchAt(sb).keys)

\* a pass built its batch from an index response (which lists a pool of an
\* unsupported extension on the pair) and the batch was fulfilled
C22_Witness ==
    \E s \in DemandSlots :
        /\ passes[s].kind = "onDemand"
        /\ ~passes[s].indexFailed
        /\ \E b \in DOMAIN passes[s].batches : passes[s].batches[b].promise = "fulfilled"
        /\ \E i \in DOMAIN IndexPools :
              /\ IndexPools[i].extension \notin {0, configOracle}
              /\ IndexPools[i].core_address = configCore
              /\ OnCanonicalPair(IndexPools[i], passes[s].tokenA, passes[s].tokenB)

\* C23: every Registry entry is stored under the identifier of its own pool,
\* and the configuration of a Pool Object never changes once it is built.
C23_EntriesKeyedByOwnIdentifier ==
    /\ [](\A i \in DOMAIN pools : pools[i].pool.key.string_id = pools[i].poolId)
    /\ [][\A i \in DOMAIN pools, j \in DOMAIN pools' :
             pools[i].pool.ref = pools'[j].pool.ref /\ pools[i].poolId = pools'[j].poolId
                => pools[i].pool.key = pools'[j].pool.key]_vars

\* the Registry holds pools of both variants, built by two passes
C23_Witness ==
    /\ \E i \in DOMAIN pools : pools[i].pool.variant = "OraclePool"
    /\ \E i \in DOMAIN pools : pools[i].pool.variant = "BasePool"
    /\ \E i, j \in DOMAIN pools : i < j /\ pools[i].pool.ref # pools[j].pool.ref

(***************************************************************************)
(* Transfer handler claims.                                                *)
(***************************************************************************)
\* the settled processLog calls on a Transfer log whose read succeeded
Transfers ==
    {i \in SettledCalls("processLog") :
        ~Unhandled(idleLog[i].log) /\ ~idleLog[i].readFailed}

\* C24: a processLog call on a Transfer log whose read succeeds returns the
\* snapshot generateState returns at the block of the log: the value read at
\* that block, whatever snapshot the store held and whatever the log carries.
C24_TransferEqualsRegenerate ==
    \A i \in Transfers :
        /\ idleLog[i].status = "fulfilled"
        /\ idleLog[i].value = << [tokenPrice |-> 100 + 7 * idleLog[i].log.blockNumber] >>
        /\ \A j \in SettledCalls("generateState") :
              (/\ idleLog[j].status = "fulfilled"
               /\ idleLog[j].blockNumber = idleLog[i].log.blockNumber)
              => idleLog[i].value = idleLog[j].value

C24_Witness ==
    \E j \in SettledCalls("generateState") :
        \E i, k \in Transfers :
            /\ idleLog[j].status = "fulfilled"
            /\ idleLog[i].log.blockNumber = idleLog[j].blockNumber
            /\ idleLog[k].log.blockNumber = idleLog[j].blockNumber
            /\ idleLog[i].log.value # idleLog[k].log.value
            /\ idleLog[i].before # idleLog[j].before
            /\ idleLog[k].before # <<>>

(***************************************************************************)
(* Frame claims.                                                           *)
(***************************************************************************)
\* the step in which the index query of a scheduled or initial pass fails
IndexFails(s) ==
    /\ passes[s].pc = "awaitIndex"
    /\ passes[s].kind \in {"initial", "scheduled"}
    /\ passes'[s].indexFailed

\* C25: a scheduled or initial pass whose index query fails or answers with a
\* malformed body leaves the Registry as it is, starts no batch (no on-chain
\* read) and returns to its caller without an error.
C25_FailedIndexLeavesRegistry ==
    [][\A s \in RefreshSlots :
          IndexFails(s) =>
             /\ pools' = pools
             /\ passes'[s].batches = <<>>
             /\ passes'[s].pc = "idle"
             /\ exited' = exited]_vars

\* a pass of the scheduler has failed on the index while the Registry holds
\* pools and the timer stays armed
C25_Witness ==
    \E s \in RefreshSlots :
        /\ passes[s].pc = "idle"
        /\ passes[s].indexFailed
        /\ pools # <<>>
        /\ interval # NoTimer
        /\ interval \in armed

\* the step of a quote call: priceCall becomes the record of a new call
SameLimitPools(a, b) ==
    IF a = "undefined" THEN b = "undefined" ELSE (b # "undefined" /\ a = b)

SameCall(a, b) ==
    IF a.side = "none" \/ b.side = "none" THEN a.side = b.side
    ELSE /\ a.side = b.side
         /\ a.srcToken = b.srcToken
         /\ a.destToken = b.destToken
         /\ a.amounts = b.amounts
         /\ a.blockNumber = b.blockNumber
         /\ SameLimitPools(a.limitPools, b.limitPools)
         /\ a.candidates = b.candidates
         /\ a.result = b.result

QuoteStep == priceCall'.side # "none" /\ ~SameCall(priceCall', priceCall)

\* the Registry tracks no pool on the pair of two tokens
NoTrackedPool(map, tokenA, tokenB) ==
    \A i \in DOMAIN map : ~OnCanonicalPair(map[i].pool.key, tokenA, tokenB)

\* the well-formed index lists a supported configuration on the pair
IndexListsPair(tokenA, tokenB) ==
    \E i \in DOMAIN IndexPools :
        /\ IsSupportedEntry(IndexPools[i])
        /\ IndexPools[i].token0 = Lower(tokenA, tokenB)
        /\ IndexPools[i].token1 = Higher(tokenA, tokenB)

\* C26: a quote call leaves the Registry exactly as it was (no entry added,
\* replaced or removed), starts no discovery pass and arms no timer; a call
\* for a pair with no tracked pool returns the empty list.
C26_QuoteIsReadOnly ==
    [][QuoteStep =>
          /\ pools' = pools
          /\ passes' = passes
          /\ UNCHANGED <<interval, armed, nextTimer>>
          /\ NoTrackedPool(pools, priceCall'.srcToken, priceCall'.destToken)
                => priceCall'.result = <<>>]_vars

\* a quote without limitPools for a pair the index lists a configuration of,
\* asked while the Registry tracks pools of another pair only: nothing comes
\* back and no pass is under way
C26_Witness ==
    /\ Called
    /\ priceCall.limitPools = "undefined"
    /\ priceCall.amounts # <<>>
    /\ IndexListsPair(priceCall.srcToken, priceCall.destToken)
    /\ pools # <<>>
    /\ NoTrackedPool(pools, priceCall.srcToken, priceCall.destToken)
    /\ priceCall.result = <<>>
    /\ \A s \in Slots : passes[s].pc = "idle"

====
